---- MODULE Spec2Model ----
(***************************************************************************)
(* Model of the ceramic-playground script (src/src/index.ts and its later  *)
(* revision src/unnamed/part_000): a client object with a settable `did`,  *)
(* the wrappers createDocument / createDocumentWithSchema /                *)
(* createSchemaDocument / loadDocument, and document handles on which      *)
(* update is called.                                                       *)
(*                                                                         *)
(* The document store behind TileDocument.create / load / update is the    *)
(* external Ceramic library and node; its code is not part of the          *)
(* repository.  The operators TileDocument_create, TileDocument_update,    *)
(* Resolve, Exists, Validate and Conforms follow the store contract of     *)
(* spec.md (sections 3, 4.2, 4.3, 4.4).  Where that contract leaves the    *)
(* order of two checks open (schema against ownership, 4.3 step 4 and      *)
(* section 9) the model admits both outcomes.                              *)
(***************************************************************************)
EXTENDS Integers, Sequences, FiniteSets, TLC

VARIABLES
    did,      \* did[c]: the identity assigned to client c (ceramic.did), or NoDid
    docs,     \* the store: one entry per stream, in creation order
    handle,   \* loadedDocument: the handle a load returned last (its client, its
              \* stream and the client's identity at the load), or NoHandle
    result,   \* the last call: its name and outcome, the identifier it
              \* was given (load, update) or returned (create), and the content
              \* it passed (create, update) or read (load)
    created,  \* per stream, what its creating call saw: the client's identity at
              \* the call, the content passed and the identifier returned
    before    \* the store as it was when the last call was made

vars == <<did, docs, handle, result, created, before>>

\* ---------------------------------------------------------------- bounds
\* Commits the store may hold over all its streams (genesis commits and
\* accepted updates).
MaxCommits == 3

\* ------------------------------------------------------------ identities
\* The two client objects main() creates with createCeramicClient().
Clients == {"ceramic", "notAuthCeramic"}

\* The two seeds main() authenticates.
Seeds == {"seed", "seed2"}

\* A client created by createCeramicClient() has no did assigned.
NoDid == "none"

\* authenticateDID: the identity is derived from the seed alone.
authenticateDID(seed) == IF seed = "seed" THEN "newDid" ELSE "otherDid"

Dids == {authenticateDID(s) : s \in Seeds}

createCeramicClient == NoDid

\* --------------------------------------------------------------- contents
Str(text, len) == [type |-> "string", len |-> len, v |-> text]
Bool(b) == [type |-> "boolean", len |-> 0, v |-> b]
Num(n) == [type |-> "number", len |-> 0, v |-> n]

\* A document's content: an object, as the function from its keys to values.
Data(fields) == [kind |-> "data", fields |-> fields]

\* { test: "123" }
ContentTest == Data("test" :> Str("123", 3))
\* { test: "123", updated: true }
ContentUpdated == Data("test" :> Str("123", 3) @@ "updated" :> Bool("true"))
\* { name: "Alice" }
ContentAlice == Data("name" :> Str("Alice", 5))

\* maxLength of the schema's `name` property.
NameMaxLength == 150

\* { name: <a string one character longer than the schema allows> }
ContentLongName == Data("name" :> Str("long", NameMaxLength + 1))

\* The JSON schema createSchemaDocument publishes: type "object", property
\* `name` a string of at most NameMaxLength characters, `name` required.
MySchema ==
    [kind |-> "schema",
     properties |-> "name" :> [type |-> "string", maxLength |-> NameMaxLength],
     required |-> {"name"}]

\* { name: "Alice", updated: true }
ContentAliceUpdated == Data("name" :> Str("Alice", 5) @@ "updated" :> Bool("true"))
\* { name: 7 }
ContentNumName == Data("name" :> Num("7"))

\* Contents createDocument is called with.
CreateContents == {ContentTest}
\* Contents createDocumentWithSchema is called with.
SchemaContents == {ContentAlice, ContentTest, ContentLongName, ContentNumName}
\* Contents update is called with.
UpdateContents == {ContentUpdated, ContentAliceUpdated}

\* ------------------------------------------------------------ identifiers
\* commit = 0 addresses the stream (its latest commit); commit = n > 0
\* addresses the n-th commit of the stream.
StreamID(s) == [stream |-> s, commit |-> 0]
CommitID(s, n) == [stream |-> s, commit |-> n]
NoSchema == CommitID(0, 0)
NoHandle == [client |-> "none", id |-> NoSchema, did |-> NoDid]

\* The identifiers of the store's streams and commits.
Known(store) ==
    UNION {{CommitID(s, n) : n \in 0..Len(store[s].log)} : s \in DOMAIN store}

\* An identifier of no stream of the store.
Unknown(store) == StreamID(Len(store) + 1)

\* ------------------------------------------------------------------ store
Exists(store, id) ==
    /\ id.stream \in 1..Len(store)
    /\ id.commit <= Len(store[id.stream].log)

\* Stream identifier: the latest accepted commit.  Commit identifier: that
\* one commit.
Resolve(store, id) ==
    LET log == store[id.stream].log
    IN  IF id.commit = 0 THEN log[Len(log)] ELSE log[id.commit]

\* Structural validation: every required field is present, and every declared
\* property that is present has the declared type and, a string, at most
\* maxLength characters.  Content that is not a schema definition constrains
\* nothing.
Validate(content, schema) ==
    \/ schema.kind # "schema"
    \/ /\ content.kind = "data"
       /\ schema.required \subseteq DOMAIN content.fields
       /\ \A f \in DOMAIN schema.properties \cap DOMAIN content.fields :
            /\ content.fields[f].type = schema.properties[f].type
            /\ content.fields[f].len <= schema.properties[f].maxLength

Conforms(store, content, schemaRef) ==
    \/ schemaRef = NoSchema
    \/ /\ Exists(store, schemaRef)
       /\ Validate(content, Resolve(store, schemaRef))

\* The outcomes TileDocument.create may produce: a given schema is validated
\* first, then a current identity is required.
TileDocument_create(store, signer, content, schemaRef) ==
    IF ~Conforms(store, content, schemaRef) THEN {"SchemaViolation"}
    ELSE IF signer = NoDid THEN {"Unauthenticated"}
    ELSE {"ok"}

\* The store after an accepted create: a new stream owned by the signer whose
\* history is the genesis commit.
Created(store, signer, content, schemaRef) ==
    Append(store, [owner |-> signer, schema |-> schemaRef, log |-> <<content>>])

\* The outcomes update may produce: an identity is required first; a schema
\* violation and an ownership violation are both possible when both apply.
TileDocument_update(store, s, signer, content) ==
    IF signer = NoDid THEN {"Unauthenticated"}
    ELSE LET bad == (IF Conforms(store, content, store[s].schema)
                        THEN {} ELSE {"SchemaViolation"})
                    \cup
                    (IF signer = store[s].owner THEN {} ELSE {"OwnershipViolation"})
         IN  IF bad = {} THEN {"ok"} ELSE bad

\* The store after an accepted update: the commit is appended.
Updated(store, s, content) ==
    [store EXCEPT ![s].log = Append(@, content)]

NumCommits(store) ==
    LET RECURSIVE Sum(_)
        Sum(i) == IF i = 0 THEN 0 ELSE Len(store[i].log) + Sum(i - 1)
    IN  Sum(Len(store))

\* ----------------------------------------------------------------- state
\* The bound of the model: an update that would be accepted is taken only
\* while the store holds fewer than MaxCommits commits; one that is rejected
\* adds nothing and is always taken.
Room(store, outcomes) == NumCommits(store) < MaxCommits \/ "ok" \notin outcomes

Result(op, id, content, outcome) ==
    [op |-> op, id |-> id, content |-> content, outcome |-> outcome]
NoContent == Data(<<>>)

Init ==
    /\ did = [c \in Clients |-> createCeramicClient]
    /\ docs = <<>>
    /\ handle = NoHandle
    /\ result = Result("none", NoSchema, NoContent, "ok")
    /\ created = <<>>
    /\ before = <<>>

\* const did = await authenticateDID(seed); ceramic.did = did
SetDid(c, seed) ==
    /\ did' = [did EXCEPT ![c] = authenticateDID(seed)]
    /\ result' = Result("setDid", NoSchema, NoContent, "ok")
    /\ before' = docs
    /\ UNCHANGED <<docs, handle, created>>

\* Create signing with the did of the module's first client instead of the
\* did of the client it is given.
Create_globalClient(c, op, content, schemaRef, ref) ==
    /\ NumCommits(docs) < MaxCommits
    /\ \E outcome \in TileDocument_create(docs, did["ceramic"], content, schemaRef) :
        /\ docs' = IF outcome = "ok"
                      THEN Created(docs, did["ceramic"], content, schemaRef)
                      ELSE docs
        /\ created' = IF outcome = "ok"
                         THEN Append(created, [op |-> op, by |-> did[c],
                                               content |-> content, ref |-> ref])
                         ELSE created
        /\ result' = Result(op, IF outcome = "ok" THEN ref ELSE NoSchema,
                            content, outcome)
    /\ before' = docs
    /\ UNCHANGED <<did, handle>>

\* The shared body of the three create wrappers: TileDocument.create with the
\* client's current did; `ref` is the identifier the wrapper returns.
Create(c, op, content, schemaRef, ref) ==
    /\ NumCommits(docs) < MaxCommits
    /\ \E outcome \in TileDocument_create(docs, did[c], content, schemaRef) :
        /\ docs' = IF outcome = "ok"
                      THEN Created(docs, did[c], content, schemaRef)
                      ELSE docs
        /\ created' = IF outcome = "ok"
                         THEN Append(created, [op |-> op, by |-> did[c],
                                               content |-> content, ref |-> ref])
                         ELSE created
        /\ result' = Result(op, IF outcome = "ok" THEN ref ELSE NoSchema,
                            content, outcome)
    /\ before' = docs
    /\ UNCHANGED <<did, handle>>

\* createDocument returning the identifier of the stream before the new one.
createDocument_wrongId(c, content) ==
    Create(c, "create", content, NoSchema, StreamID(Len(docs)))

\* createDocument(ceramic, content): returns doc.id
createDocument(c, content) ==
    Create(c, "create", content, NoSchema, StreamID(Len(docs) + 1))

\* createSchemaDocument returning doc.id, the stream identifier.
createSchemaDocument_streamId(c) ==
    Create(c, "createSchema", MySchema, NoSchema, StreamID(Len(docs) + 1))

\* createSchemaDocument(ceramic): returns doc.commitId
createSchemaDocument(c) ==
    Create(c, "createSchema", MySchema, NoSchema, CommitID(Len(docs) + 1, 1))

\* The identifiers createSchemaDocument has returned.
SchemaIDs == {created[s].ref : s \in {t \in DOMAIN created : created[t].op = "createSchema"}}

\* createDocumentWithSchema not passing { schema: schemaID } on.
createDocumentWithSchema_noSchema(c, content, schemaID) ==
    /\ schemaID \in SchemaIDs
    /\ Create(c, "createWithSchema", content, NoSchema, StreamID(Len(docs) + 1))

\* createDocumentWithSchema(ceramic, content, schemaID): returns doc.id
createDocumentWithSchema(c, content, schemaID) ==
    /\ schemaID \in SchemaIDs
    /\ Create(c, "createWithSchema", content, schemaID, StreamID(Len(docs) + 1))

\* loadDocument resolving a stream identifier to the genesis commit.
loadDocument_genesis(c, id) ==
    /\ IF Exists(docs, id)
          THEN /\ result' = Result("load", id,
                                   Resolve(docs, CommitID(id.stream,
                                                          IF id.commit = 0 THEN 1
                                                                           ELSE id.commit)),
                                   "ok")
               /\ handle' = IF id.commit = 0
                               THEN [client |-> c, id |-> id, did |-> did[c]]
                               ELSE handle
          ELSE /\ result' = Result("load", id, NoContent, "NotFound")
               /\ handle' = handle
    /\ before' = docs
    /\ UNCHANGED <<did, docs, created>>

\* loadDocument refusing a client that has no did.
loadDocument_needsDid(c, id) ==
    /\ IF Exists(docs, id) /\ did[c] # NoDid
          THEN /\ result' = Result("load", id, Resolve(docs, id), "ok")
               /\ handle' = IF id.commit = 0
                               THEN [client |-> c, id |-> id, did |-> did[c]]
                               ELSE handle
          ELSE /\ result' = Result("load", id, NoContent,
                                   IF Exists(docs, id) THEN "Unauthenticated"
                                                       ELSE "NotFound")
               /\ handle' = handle
    /\ before' = docs
    /\ UNCHANGED <<did, docs, created>>

\* loadDocument(ceramic, id): needs no did; a load by stream identifier leaves
\* the handle that update is later called on, and the handle keeps its client.
loadDocument(c, id) ==
    /\ IF Exists(docs, id)
          THEN /\ result' = Result("load", id, Resolve(docs, id), "ok")
               /\ handle' = IF id.commit = 0
                               THEN [client |-> c, id |-> id, did |-> did[c]]
                               ELSE handle
          ELSE /\ result' = Result("load", id, NoContent, "NotFound")
               /\ handle' = handle
    /\ before' = docs
    /\ UNCHANGED <<did, docs, created>>

\* Signing with the identity the client held when the handle was loaded.
Signer_atLoad(h) == h.did

\* The identity that signs an update issued through handle h: the one its
\* client holds now.
Signer(h) == did[h.client]

\* An update whose content is applied although the store rejected it.
update_appliesRejected(content) ==
    /\ handle # NoHandle
    /\ NumCommits(docs) < MaxCommits
    /\ LET s == handle.id.stream
       IN  \E outcome \in TileDocument_update(docs, s, Signer(handle), content) :
            /\ docs' = Updated(docs, s, content)
            /\ result' = Result("update", handle.id, content, outcome)
    /\ before' = docs
    /\ UNCHANGED <<did, handle, created>>

\* An update whose rejection is swallowed: the call reports success.
update_swallowsError(content) ==
    /\ handle # NoHandle
    /\ Room(docs, TileDocument_update(docs, handle.id.stream, Signer(handle), content))
    /\ LET s == handle.id.stream
       IN  \E outcome \in TileDocument_update(docs, s, Signer(handle), content) :
            /\ docs' = IF outcome = "ok" THEN Updated(docs, s, content) ELSE docs
            /\ result' = Result("update", handle.id, content, "ok")
    /\ before' = docs
    /\ UNCHANGED <<did, handle, created>>

\* loadedDocument.update(content)
update(content) ==
    /\ handle # NoHandle
    /\ Room(docs, TileDocument_update(docs, handle.id.stream, Signer(handle), content))
    /\ LET s == handle.id.stream
       IN  \E outcome \in TileDocument_update(docs, s, Signer(handle), content) :
            /\ docs' = IF outcome = "ok" THEN Updated(docs, s, content) ELSE docs
            /\ result' = Result("update", handle.id, content, outcome)
    /\ before' = docs
    /\ UNCHANGED <<did, handle, created>>

Next ==
    \/ \E seed \in Seeds : SetDid("ceramic", seed)
    \/ \E c \in Clients, content \in CreateContents : createDocument(c, content)
    \/ \E c \in Clients : createSchemaDocument(c)
    \/ \E c \in Clients, content \in SchemaContents, id \in SchemaIDs :
            createDocumentWithSchema(c, content, id)
    \/ \E c \in Clients, id \in Known(docs) \cup {Unknown(docs)} : loadDocument(c, id)
    \/ \E content \in UpdateContents : update(content)

Spec == Init /\ [][Next]_vars


\* ----------------------------------------------------------------- claims
\* The formulas below are state predicates over the last call (result), the
\* store when it was made (before) and the store it left (docs).  A call
\* changes neither did nor handle unless it is SetDid or a load, so after an
\* update did and handle are those the update was issued under.

Updating == result.op = "update"

\* The stream the last update addressed.
US == result.id.stream

\* The identity the handle's client holds.
CurrentDid == did[handle.client]

\* The schema of createSchemaDocument, stated on a content directly: `name` is
\* present, a string, and at most NameMaxLength characters long.
NameOk(content) ==
    /\ content.kind = "data"
    /\ "name" \in DOMAIN content.fields
    /\ content.fields["name"].type = "string"
    /\ content.fields["name"].len <= NameMaxLength

\* The content satisfies the schema of stream s, if it has one.
SatisfiesSchemaOf(s, content) == before[s].schema = NoSchema \/ NameOk(content)

\* The last call left stream s's history, and what its stream identifier
\* resolves to, as they were.
Untouched(s) ==
    /\ docs[s].log = before[s].log
    /\ Resolve(docs, StreamID(s)) = Resolve(before, StreamID(s))

\* A load returns what its identifier resolves to in the store.
LoadReadsStore ==
    (result.op = "load" /\ Exists(before, result.id))
    => /\ result.outcome = "ok"
       /\ result.content = Resolve(docs, result.id)

C2_OwnerUpdateAccepted ==
    /\ (/\ Updating
        /\ CurrentDid = before[US].owner
        /\ SatisfiesSchemaOf(US, result.content))
       => /\ result.outcome = "ok"
          /\ docs[US].log = Append(before[US].log, result.content)
          /\ docs = [before EXCEPT ![US].log = docs[US].log]
          /\ Resolve(docs, StreamID(US)) = result.content
    /\ LoadReadsStore

\* The owner's update has just been accepted and the stream holds two commits
\* with different contents.
C2_Witness ==
    /\ Updating
    /\ result.outcome = "ok"
    /\ CurrentDid = docs[US].owner
    /\ Len(docs[US].log) = 2
    /\ docs[US].log[1] # docs[US].log[2]

\* C3: a commit identifier resolves to the same content in every later state:
\* no call changes what a commit identifier resolves to, the identifier
\* createSchemaDocument returned keeps resolving (and loading) to the content
\* published, and after an accepted update the stream identifier resolves to
\* the new content while the creation commit still resolves to the content
\* passed at creation.
C3_CommitPinning ==
    /\ \A id \in Known(before) :
            id.commit > 0 => /\ id \in Known(docs)
                             /\ Resolve(docs, id) = Resolve(before, id)
    /\ \A s \in DOMAIN created :
            created[s].op = "createSchema"
            => /\ Exists(docs, created[s].ref)
               /\ Resolve(docs, created[s].ref) = created[s].content
               /\ (result.op = "load" /\ result.id = created[s].ref)
                    => result.content = created[s].content
    /\ (Updating /\ result.outcome = "ok")
       => /\ Resolve(docs, StreamID(US)) = result.content
          /\ Resolve(docs, CommitID(US, 1)) = created[US].content

\* The schema document itself has been updated by its owner: its stream
\* identifier and the commit identifier createSchemaDocument returned resolve
\* to different contents.
C3_Witness ==
    \E s \in DOMAIN created :
        /\ created[s].op = "createSchema"
        /\ Len(docs[s].log) >= 2
        /\ Resolve(docs, StreamID(s)) # Resolve(docs, created[s].ref)

\* C4: a load of an existing identifier succeeds and returns its content
\* whether or not the client has a did (a load by stream identifier through a
\* client with no did leaves that client's handle), and an update through a
\* handle whose client has no did fails with Unauthenticated and changes
\* nothing in the store.
C4_UnauthenticatedReadOnly ==
    /\ (result.op = "load" /\ Exists(before, result.id))
       => /\ result.outcome = "ok"
          /\ result.content = Resolve(before, result.id)
          /\ result.id.commit = 0 => handle.id = result.id
    /\ (Updating /\ CurrentDid = NoDid)
       => /\ result.outcome = "Unauthenticated"
          /\ docs = before

\* notAuthCeramic, which never had a did, loaded a document that has an
\* accepted update, and its own update was refused as Unauthenticated.
C4_Witness ==
    /\ Updating
    /\ result.outcome = "Unauthenticated"
    /\ handle.client = "notAuthCeramic"
    /\ handle.did = NoDid
    /\ Len(docs[US].log) = 2

\* C5: a mutating call is signed by the identity the client holds at the call:
\* a created document is owned by the did its client held at the create call,
\* and an update through a handle loaded under another identity is accepted
\* exactly when the identity held now is the owner (content satisfying the
\* schema).
C5_SignerIsCurrentIdentity ==
    /\ (result.op \in {"create", "createSchema", "createWithSchema"}
            /\ result.outcome = "ok")
       => /\ Len(docs) = Len(before) + 1
          /\ docs[Len(docs)].owner = created[Len(docs)].by
          /\ docs[Len(docs)].owner \in Dids
    /\ (/\ Updating
        /\ CurrentDid \in Dids
        /\ handle.did # CurrentDid
        /\ SatisfiesSchemaOf(US, result.content))
       => (result.outcome = "ok" <=> before[US].owner = CurrentDid)

\* The script's case: the handle was loaded while the owner identity was
\* current, the client's did was then overwritten, a document was created
\* under the new identity, and the update through the old handle was refused.
C5_Witness ==
    /\ Updating
    /\ result.outcome = "OwnershipViolation"
    /\ handle.did \in Dids
    /\ handle.did = docs[US].owner
    /\ CurrentDid \in Dids
    /\ CurrentDid # handle.did
    /\ \E s \in DOMAIN docs : s > US /\ docs[s].owner = CurrentDid

\* C6: every document's recorded owner is the identity its creating client
\* held at creation, and no call changes the owner of an existing document.
C6_OwnerFixedAtCreation ==
    /\ Len(created) = Len(docs)
    /\ \A s \in DOMAIN docs : docs[s].owner = created[s].by
    /\ \A s \in DOMAIN before :
            /\ s \in DOMAIN docs
            /\ docs[s].owner = before[s].owner

\* Both identities own a document, and an update of one of them by the other
\* identity has been rejected after an accepted update.
C6_Witness ==
    /\ \E s, t \in DOMAIN docs : docs[s].owner # docs[t].owner
    /\ Updating
    /\ result.outcome = "OwnershipViolation"
    /\ \E s \in DOMAIN docs : Len(docs[s].log) = 2

\* C7: loading the identifier a create call returned, before any update of
\* that document, returns the content passed to create; a load by stream
\* identifier returns what the stream resolves to, and what a stream resolves
\* to changes only by an accepted update of that stream, so two loads without
\* one in between return the same content.
C7_RoundTrip ==
    /\ \A s \in DOMAIN created :
            (/\ result.op = "load"
             /\ created[s].op \in {"create", "createWithSchema"}
             /\ result.id = created[s].ref
             /\ s \in DOMAIN before
             /\ Len(before[s].log) = 1)
            => /\ result.outcome = "ok"
               /\ result.content = created[s].content
    /\ (result.op = "load" /\ result.outcome = "ok" /\ result.id.commit = 0)
       => result.content = Resolve(docs, result.id)
    /\ \A s \in DOMAIN before :
            Resolve(docs, StreamID(s)) # Resolve(before, StreamID(s))
            => /\ Updating
               /\ result.outcome = "ok"
               /\ result.id = StreamID(s)

\* A document created after another one has been loaded by the identifier its
\* create call returned and the load returned the content passed to create.
C7_Witness ==
    /\ result.op = "load"
    /\ result.outcome = "ok"
    /\ result.id.stream = 2
    /\ created[2].op = "create"
    /\ created[2].ref = result.id
    /\ created[1].content # created[2].content
    /\ result.content = created[2].content

\* C8: every commit of a document created with a schema reference satisfies
\* the schema; createDocumentWithSchema with non-conforming content fails with
\* SchemaViolation and creates nothing, and with conforming content records
\* the schema reference; an update of such a document with non-conforming
\* content is rejected and appends nothing.
C8_SchemaEnforced ==
    /\ \A s \in DOMAIN docs :
            docs[s].schema # NoSchema
            => \A i \in DOMAIN docs[s].log : NameOk(docs[s].log[i])
    /\ (result.op = "createWithSchema" /\ ~NameOk(result.content))
       => /\ result.outcome = "SchemaViolation"
          /\ docs = before
    /\ (result.op = "createWithSchema" /\ result.outcome = "ok")
       => docs[Len(docs)].schema \in SchemaIDs
    /\ (/\ Updating
        /\ before[US].schema # NoSchema
        /\ ~NameOk(result.content))
       => /\ result.outcome # "ok"
          /\ docs = before

\* The owner of a document with a schema has just had a non-conforming update
\* refused, after a conforming one was accepted.
C8_Witness ==
    /\ Updating
    /\ result.outcome = "SchemaViolation"
    /\ docs[US].schema # NoSchema
    /\ CurrentDid = docs[US].owner
    /\ Len(docs[US].log) = 2

====
